---- MODULE Spec2Model ----
(***************************************************************************)
(* Resilience and fan-out layer of the decisionmemos SDK:                  *)
(*   - isRetryableError, retryDelay, BaseModelClient.withRetry,            *)
(*     BaseModelClient.createErrorResponse, the adapters' query            *)
(*     (src/src/clients/model-interface.ts, src/src/clients/*-client.ts)   *)
(*   - MultiModelQuery constructor, ask, getStatus                         *)
(*     (src/src/multi-model-query.ts)                                      *)
(*                                                                         *)
(* A JavaScript string is a TLA+ string; where the code looks inside one   *)
(* (toLowerCase, includes, parseInt) it is decoded into the tuple of its   *)
(* characters.  An optional value (a field that may be undefined) is the   *)
(* empty tuple or a one-element tuple.                                     *)
(***************************************************************************)
EXTENDS Integers, Sequences, FiniteSets, TLC

\* ------------------------------------------------------------------ bounds
\* Longest client list handed to the constructor.
MaxClients == 2
\* Largest maxRetries a client is built with (subclasses may set any value).
MaxRetriesBound == 2
\* Largest attempt index retryDelay is called with.
MaxAttempt == 5
\* Longest client list handed to the constructor in the specification with fairness.
MaxLiveClients == 1

\* ------------------------------------------------------- optional values
None == <<>>
Some(v) == <<v>>
IsSome(o) == Len(o) = 1
Get(o) == o[1]

\* ------------------------------------------------------------- JS strings
UpperChars == <<"A", "B", "C", "D", "E", "F", "G", "H", "I", "J", "K", "L", "M", "N", "O", "P", "Q", "R", "S", "T", "U", "V", "W", "X", "Y", "Z">>
LowerChars == <<"a", "b", "c", "d", "e", "f", "g", "h", "i", "j", "k", "l", "m", "n", "o", "p", "q", "r", "s", "t", "u", "v", "w", "x", "y", "z">>
DigitChars == <<"0", "1", "2", "3", "4", "5", "6", "7", "8", "9">>

\* String.prototype.toLowerCase, one character.
LowerChar(ch) ==
  IF \E k \in 1..Len(UpperChars) : UpperChars[k] = ch
    THEN LowerChars[CHOOSE k \in 1..Len(UpperChars) : UpperChars[k] = ch]
    ELSE ch

\* String.prototype.toLowerCase.
toLowerCase(s) == [k \in 1..Len(s) |-> LowerChar(s[k])]

\* String.prototype.includes: p occurs in s as a contiguous substring.
includes(s, p) ==
  \E start \in 0..(Len(s) - Len(p)) :
    \A k \in 1..Len(p) : s[start + k] = p[k]

\* Truthiness of a string: the empty string is falsy.
Truthy(str) == str # ""

\* -------------------------------------------------------------- messages
\* The strings the modelled runs carry, each with its characters.
StringTable ==
  ("" :> <<>>) @@
  ("Service unavailable" :> <<"S", "e", "r", "v", "i", "c", "e", " ", "u", "n", "a", "v", "a", "i", "l", "a", "b", "l", "e">>) @@
  ("connect ECONNREFUSED" :> <<"c", "o", "n", "n", "e", "c", "t", " ", "E", "C", "O", "N", "N", "R", "E", "F", "U", "S", "E", "D">>) @@
  ("Invalid API key" :> <<"I", "n", "v", "a", "l", "i", "d", " ", "A", "P", "I", " ", "k", "e", "y">>) @@
  ("API unavailable" :> <<"A", "P", "I", " ", "u", "n", "a", "v", "a", "i", "l", "a", "b", "l", "e">>) @@
  ("Unknown error" :> <<"U", "n", "k", "n", "o", "w", "n", " ", "e", "r", "r", "o", "r">>) @@
  ("Unknown error occurred" :> <<"U", "n", "k", "n", "o", "w", "n", " ", "e", "r", "r", "o", "r", " ", "o", "c", "c", "u", "r", "r", "e", "d">>) @@
  ("API key not configured" :> <<"A", "P", "I", " ", "k", "e", "y", " ", "n", "o", "t", " ", "c", "o", "n", "f", "i", "g", "u", "r", "e", "d">>) @@
  ("Cannot read properties of null (reading 'message')" :> <<"C", "a", "n", "n", "o", "t", " ", "r", "e", "a", "d", " ", "p", "r", "o", "p", "e", "r", "t", "i", "e", "s", " ", "o", "f", " ", "n", "u", "l", "l", " ", "(", "r", "e", "a", "d", "i", "n", "g", " ", "'", "m", "e", "s", "s", "a", "g", "e", "'", ")">>) @@
  ("[object Object]" :> <<"[", "o", "b", "j", "e", "c", "t", " ", "O", "b", "j", "e", "c", "t", "]">>) @@
  ("null" :> <<"n", "u", "l", "l">>) @@
  ("undefined" :> <<"u", "n", "d", "e", "f", "i", "n", "e", "d">>) @@
  ("OK" :> <<"O", "K">>) @@
  ("It is OK." :> <<"I", "t", " ", "i", "s", " ", "O", "K", ".">>) @@
  ("ok" :> <<"o", "k">>) @@
  ("Hello" :> <<"H", "e", "l", "l", "o">>) @@
  ("boom" :> <<"b", "o", "o", "m">>) @@
  ("Rate limit" :> <<"R", "a", "t", "e", " ", "l", "i", "m", "i", "t">>) @@
  ("5" :> <<"5">>) @@
  ("connect ECONNREFUSED 127.0.0.1:3000" :> <<"c", "o", "n", "n", "e", "c", "t", " ", "E", "C", "O", "N", "N", "R", "E", "F", "U", "S", "E", "D", " ", "1", "2", "7", ".", "0", ".", "0", ".", "1", ":", "3", "0", "0", "0">>) @@
  ("read ECONNRESET" :> <<"r", "e", "a", "d", " ", "E", "C", "O", "N", "N", "R", "E", "S", "E", "T">>) @@
  ("connect ETIMEDOUT" :> <<"c", "o", "n", "n", "e", "c", "t", " ", "E", "T", "I", "M", "E", "D", "O", "U", "T">>) @@
  ("getaddrinfo ENOTFOUND api.x.ai" :> <<"g", "e", "t", "a", "d", "d", "r", "i", "n", "f", "o", " ", "E", "N", "O", "T", "F", "O", "U", "N", "D", " ", "a", "p", "i", ".", "x", ".", "a", "i">>) @@
  ("Request Timeout" :> <<"R", "e", "q", "u", "e", "s", "t", " ", "T", "i", "m", "e", "o", "u", "t">>) @@
  ("RATE_LIMIT_EXCEEDED" :> <<"R", "A", "T", "E", "_", "L", "I", "M", "I", "T", "_", "E", "X", "C", "E", "E", "D", "E", "D">>) @@
  ("The server is overloaded" :> <<"T", "h", "e", " ", "s", "e", "r", "v", "e", "r", " ", "i", "s", " ", "o", "v", "e", "r", "l", "o", "a", "d", "e", "d">>) @@
  ("Insufficient Capacity" :> <<"I", "n", "s", "u", "f", "f", "i", "c", "i", "e", "n", "t", " ", "C", "a", "p", "a", "c", "i", "t", "y">>) @@
  ("network error" :> <<"n", "e", "t", "w", "o", "r", "k", " ", "e", "r", "r", "o", "r">>) @@
  ("socket hang up" :> <<"s", "o", "c", "k", "e", "t", " ", "h", "a", "n", "g", " ", "u", "p">>) @@
  ("fetch failed" :> <<"f", "e", "t", "c", "h", " ", "f", "a", "i", "l", "e", "d">>) @@
  ("Internal Server Error" :> <<"I", "n", "t", "e", "r", "n", "a", "l", " ", "S", "e", "r", "v", "e", "r", " ", "E", "r", "r", "o", "r">>) @@
  ("Content policy violation" :> <<"C", "o", "n", "t", "e", "n", "t", " ", "p", "o", "l", "i", "c", "y", " ", "v", "i", "o", "l", "a", "t", "i", "o", "n">>) @@
  ("Unauthorized" :> <<"U", "n", "a", "u", "t", "h", "o", "r", "i", "z", "e", "d">>) @@
  ("1" :> <<"1">>) @@
  ("60" :> <<"6", "0">>) @@
  ("61" :> <<"6", "1">>) @@
  ("120" :> <<"1", "2", "0">>) @@
  ("0" :> <<"0">>) @@
  ("-5" :> <<"-", "5">>) @@
  ("abc" :> <<"a", "b", "c">>) @@
  ("30s" :> <<"3", "0", "s">>) @@
  ("5.5" :> <<"5", ".", "5">>) @@
  (" 7" :> <<" ", "7">>)

\* The characters of a string.
Chars(str) == StringTable[str]

\* ---------------------------------------------------------- thrown values
\* A value a promise rejects with or a call throws: type is what the value
\* is ("Error" for instances of Error), status/statusCode/retryAfter are the
\* optional properties the code reads, message is Error.message (for a
\* thrown string, the string itself).
Thrown(type, status, message, retryAfter) ==
  [type |-> type, status |-> status, statusCode |-> None,
   message |-> message, retryAfter |-> retryAfter]

Err503 == Thrown("Error", Some(503), "Service unavailable", None)
ErrConnRefused == Thrown("Error", None, "connect ECONNREFUSED", None)
Err401 == Thrown("Error", Some(401), "Invalid API key", None)
\* A rate-limit error carrying the header retry-after: 5.
Err429RetryAfter == Thrown("Error", Some(429), "Rate limit", Some("5"))
ErrApiUnavailable == Thrown("Error", None, "API unavailable", None)
ErrEmptyMessage == Thrown("Error", None, "", None)
ThrownString == Thrown("string", None, "boom", None)
ThrownNull == Thrown("null", None, "", None)
ThrownUndefined == Thrown("undefined", None, "", None)
\* TypeError raised by reading .message of null.
TypeErrorNull == Thrown("Error", None, "Cannot read properties of null (reading 'message')", None)

\* `!error` of JavaScript.
Falsy(error) ==
  \/ error.type \in {"null", "undefined"}
  \/ error.type = "string" /\ ~Truthy(error.message)

\* `error.message` throws a TypeError when error is null or undefined.
MessageReadThrows(error) == error.type \in {"null", "undefined"}

\* ------------------------------------------------------- ErrorClassifier
RETRYABLE_STATUS_CODES == {429, 500, 502, 503, 529}

RETRYABLE_PATTERNS == {
  <<"e", "c", "o", "n", "n", "r", "e", "f", "u", "s", "e", "d">>,
  <<"e", "c", "o", "n", "n", "r", "e", "s", "e", "t">>,
  <<"e", "t", "i", "m", "e", "d", "o", "u", "t">>,
  <<"e", "n", "o", "t", "f", "o", "u", "n", "d">>,
  <<"t", "i", "m", "e", "o", "u", "t">>,
  <<"r", "a", "t", "e", " ", "l", "i", "m", "i", "t">>,
  <<"r", "a", "t", "e", "_", "l", "i", "m", "i", "t">>,
  <<"o", "v", "e", "r", "l", "o", "a", "d", "e", "d">>,
  <<"c", "a", "p", "a", "c", "i", "t", "y">>,
  <<"n", "e", "t", "w", "o", "r", "k">>,
  <<"s", "o", "c", "k", "e", "t", " ", "h", "a", "n", "g", " ", "u", "p">>,
  <<"f", "e", "t", "c", "h", " ", "f", "a", "i", "l", "e", "d">>,
  <<"s", "e", "r", "v", "i", "c", "e", " ", "u", "n", "a", "v", "a", "i", "l", "a", "b", "l", "e">>,
  <<"i", "n", "t", "e", "r", "n", "a", "l", " ", "s", "e", "r", "v", "e", "r", " ", "e", "r", "r", "o", "r">> }

DEFAULT_MAX_RETRIES == 2

\* String(error) for a value that is not an Error instance.
StringOf(error) ==
  CASE error.type = "string" -> error.message
    [] error.type = "null" -> "null"
    [] error.type = "undefined" -> "undefined"
    [] OTHER -> "[object Object]"

\* error?.status ?? error?.statusCode
StatusOf(error) ==
  IF Falsy(error) THEN None
  ELSE IF IsSome(error.status) THEN error.status ELSE error.statusCode

\* isRetryableError with 529 missing from the retryable status codes.
isRetryableErrorNo529(error) ==
  IF Falsy(error) THEN FALSE
  ELSE IF IsSome(StatusOf(error)) /\ Get(StatusOf(error)) \in RETRYABLE_STATUS_CODES \ {529}
    THEN TRUE
  ELSE LET msg == toLowerCase(Chars(IF error.type = "Error" THEN error.message
                                                           ELSE StringOf(error)))
       IN \E p \in RETRYABLE_PATTERNS : includes(msg, p)

\* isRetryableError matching the message as it is, without toLowerCase.
isRetryableErrorCaseSensitive(error) ==
  IF Falsy(error) THEN FALSE
  ELSE IF IsSome(StatusOf(error)) /\ Get(StatusOf(error)) \in RETRYABLE_STATUS_CODES
    THEN TRUE
  ELSE LET msg == Chars(IF error.type = "Error" THEN error.message ELSE StringOf(error))
       IN \E p \in RETRYABLE_PATTERNS : includes(msg, p)

isRetryableError(error) ==
  IF Falsy(error) THEN FALSE
  ELSE IF IsSome(StatusOf(error)) /\ Get(StatusOf(error)) \in RETRYABLE_STATUS_CODES
    THEN TRUE
  ELSE LET msg == toLowerCase(Chars(IF error.type = "Error" THEN error.message
                                                           ELSE StringOf(error)))
       IN \E p \in RETRYABLE_PATTERNS : includes(msg, p)

\* ---------------------------------------------------------- BackoffPolicy
Min(a, b) == IF a <= b THEN a ELSE b

RECURSIVE Pow2(_)
Pow2(n) == IF n <= 0 THEN 1 ELSE 2 * Pow2(n - 1)

DigitValue(ch) == (CHOOSE k \in 1..Len(DigitChars) : DigitChars[k] = ch) - 1
IsDigit(ch) == \E k \in 1..Len(DigitChars) : DigitChars[k] = ch

\* Value of the longest all-digit prefix of s, given the value so far.
RECURSIVE DigitsValue(_, _)
DigitsValue(s, acc) ==
  IF s = <<>> \/ ~IsDigit(Head(s)) THEN acc
  ELSE DigitsValue(Tail(s), 10 * acc + DigitValue(Head(s)))

RECURSIVE SkipSpaces(_)
SkipSpaces(s) == IF s # <<>> /\ Head(s) = " " THEN SkipSpaces(Tail(s)) ELSE s

\* parseInt(s, 10): None is NaN.
parseInt(s) ==
  LET t == SkipSpaces(s)
      neg == t # <<>> /\ Head(t) = "-"
      u == IF t # <<>> /\ Head(t) \in {"-", "+"} THEN Tail(t) ELSE t
  IN IF u = <<>> \/ ~IsDigit(Head(u)) THEN None
     ELSE Some(IF neg THEN 0 - DigitsValue(u, 0) ELSE DigitsValue(u, 0))

\* retryDelay without the 10 s cap on the exponential value.
retryDelayUncapped(attempt, error) ==
  LET retryAfter == IF Falsy(error) THEN None ELSE error.retryAfter
      secs == IF IsSome(retryAfter) THEN parseInt(Chars(Get(retryAfter))) ELSE None
  IN IF IsSome(retryAfter) /\ Truthy(Get(retryAfter))
        /\ IsSome(secs) /\ Get(secs) > 0 /\ Get(secs) <= 60
       THEN Get(secs) * 1000
       ELSE 1000 * Pow2(attempt)

\* retryDelay ignoring the retry-after header.
retryDelayIgnoresHint(attempt, error) == Min(1000 * Pow2(attempt), 10000)

\* retryDelay taking the hint as milliseconds.
retryDelayHintAsMillis(attempt, error) ==
  LET retryAfter == IF Falsy(error) THEN None ELSE error.retryAfter
      secs == IF IsSome(retryAfter) THEN parseInt(Chars(Get(retryAfter))) ELSE None
  IN IF IsSome(retryAfter) /\ Truthy(Get(retryAfter))
        /\ IsSome(secs) /\ Get(secs) > 0 /\ Get(secs) <= 60
       THEN Get(secs)
       ELSE Min(1000 * Pow2(attempt), 10000)

\* retryDelay accepting any positive hint, however large.
retryDelayNoUpperLimit(attempt, error) ==
  LET retryAfter == IF Falsy(error) THEN None ELSE error.retryAfter
      secs == IF IsSome(retryAfter) THEN parseInt(Chars(Get(retryAfter))) ELSE None
  IN IF IsSome(retryAfter) /\ Truthy(Get(retryAfter))
        /\ IsSome(secs) /\ Get(secs) > 0
       THEN Get(secs) * 1000
       ELSE Min(1000 * Pow2(attempt), 10000)

retryDelay(attempt, error) ==
  LET retryAfter == IF Falsy(error) THEN None ELSE error.retryAfter
      secs == IF IsSome(retryAfter) THEN parseInt(Chars(Get(retryAfter))) ELSE None
  IN IF IsSome(retryAfter) /\ Truthy(Get(retryAfter))
        /\ IsSome(secs) /\ Get(secs) > 0 /\ Get(secs) <= 60
       THEN Get(secs) * 1000
       ELSE Min(1000 * Pow2(attempt), 10000)

\* ---------------------------------------------------------------- clients
\* A client handed to the constructor.  kind "adapter" is a subclass of
\* BaseModelClient (the built-in adapters and their query pattern); kind
\* "mock" is any other implementation of the AIModelClient interface, whose
\* isConfigured and query behave as the implementer chose.
Client(name, provider, kind, apiKey, configured, maxRetries) ==
  [name |-> name, provider |-> provider, kind |-> kind, apiKey |-> apiKey,
   configured |-> configured, maxRetries |-> maxRetries]

PLACEHOLDER_KEY == "your_api_key_here"

\* isConfigured rejecting only the empty key.
isConfiguredNonEmpty(c) ==
  IF c.kind = "adapter" THEN c.apiKey # "" ELSE c.configured

\* BaseModelClient.isConfigured; for a mock, what its isConfigured returns.
isConfigured(c) ==
  IF c.kind = "adapter"
    THEN c.apiKey # "" /\ c.apiKey # PLACEHOLDER_KEY
    ELSE c.configured

ClientNames == <<"GPT", "Claude", "Grok", "Gemini", "Extra">>
ClientProviders == <<"openai", "anthropic", "xai", "google", "test">>

Profile(kind, apiKey, configured, maxRetries) ==
  [kind |-> kind, apiKey |-> apiKey, configured |-> configured, maxRetries |-> maxRetries]

\* What a position of the list given to the orchestrator may hold: a mock,
\* configured or not, or a built-in adapter (retry budget DEFAULT_MAX_RETRIES)
\* with a real key, no key or the placeholder key.
Profiles ==
  { Profile("mock", "", b, 0) : b \in BOOLEAN }
  \cup { Profile("adapter", k, TRUE, DEFAULT_MAX_RETRIES) : k \in {"sk-live", "", PLACEHOLDER_KEY} }

\* Keys an adapter is built with: a real key, none (the callers pass ''),
\* the placeholder, and two keys that only resemble the placeholder.
ApiKeys == {"sk-live", "", PLACEHOLDER_KEY, "YOUR_API_KEY_HERE", "your_api_key"}

\* The adapters the retry executor is exercised with: a subclass of
\* BaseModelClient may set any maxRetries.
RetryProfiles ==
  { Profile("adapter", k, TRUE, m) : k \in ApiKeys, m \in 0..MaxRetriesBound }

MakeClient(i, p) ==
  Client(ClientNames[i], ClientProviders[i], p.kind, p.apiKey, p.configured, p.maxRetries)

\* -------------------------------------------------------------- responses
\* ModelResponse (types.ts): timestamp, tokensUsed and persona are not read
\* by the modelled code and are left out; error None is `error` undefined.
Response(modelName, provider, response, latency, error) ==
  [modelName |-> modelName, provider |-> provider, response |-> response,
   latency |-> latency, error |-> error]

\* createErrorResponse leaving the error field unset.
createErrorResponseNoError(c, error) == Response(c.name, c.provider, "", 0, None)

\* BaseModelClient.createErrorResponse
createErrorResponse(c, error) ==
  LET message == IF error.type = "Error" THEN error.message
                 ELSE IF error.type = "string" THEN error.message
                 ELSE "Unknown error occurred"
  IN Response(c.name, c.provider, "", 0, Some(message))

\* SynthesizedResponse that never reads the message.
SynthesizedResponseAlwaysUnknown(c, err) ==
  Response(c.name, c.provider, "", 0, Some("Unknown error"))

\* The Response the catch handler of ask builds for a rejected query:
\* error is `err.message || 'Unknown error'`.
SynthesizedResponse(c, err) ==
  LET message == IF err.type = "Error" /\ Truthy(err.message) THEN err.message
                 ELSE "Unknown error"
  IN Response(c.name, c.provider, "", 0, Some(message))

\* `!r.error`
HasNoError(r) == ~(IsSome(r.error) /\ Truthy(Get(r.error)))

\* How a promise settled.
Resolved(r) == [kind |-> "resolve", resp |-> Some(r), err |-> None]
Rejected(e) == [kind |-> "reject", resp |-> None, err |-> Some(e)]

\* ------------------------------------------------------------------ state
VARIABLES
  keySources, \* options.keys and process.env as the constructor saw them
  supplied,   \* options.clients as given to the constructor, or the four
              \* adapters the constructor built itself
  clients,    \* this.clients: the held list
  calls,      \* the query calls made by the current operation
  askPc,      \* where the current ask is: idle, waiting, resolved, rejected
  askArgs,    \* <<question, systemPrompt>> of the current ask
  slots,      \* Promise.all's values array: one optional Response per client
  result,     \* what ask resolved with
  rejection,  \* what ask rejected with
  fnArgs,     \* arguments of a direct call of isRetryableError or retryDelay
  fnValue,    \* what that call returned
  testPc,     \* where the current testConnections is: idle, waiting, resolved
  okSlots,    \* its Promise.all values: one optional {model, provider, ok} per client
  testResult, \* what testConnections resolved with
  status,     \* what the latest getStatus() returned to its caller
  connected   \* how a testConnection() called directly on an adapter settled

\* The variables of testConnections and getStatus.
testVars == <<testPc, okSlots, testResult, status, connected>>

vars == <<keySources, supplied, clients, calls, askPc, askArgs, slots, result, rejection,
          fnArgs, fnValue, testPc, okSlots, testResult, status, connected>>

\* Inputs of ask and query: question and optional systemPrompt.
AskInputs == { <<"GraphQL vs REST?", None>>, <<"test question", Some("system prompt")>> }

\* What a transport attempt of a held adapter can throw, and resolve with.
TransportErrors == {Err503, ErrConnRefused, Err401, ErrEmptyMessage}
TransportTexts == {"OK"}

\* What the transport answers to the prompt of testConnection.
TestTexts == {"OK", "It is OK.", "ok", "Hello", ""}

\* What a transport attempt can throw when the retry executor is exercised.
RetryErrors ==
  {Err503, ErrConnRefused, Err429RetryAfter, Err401, ErrEmptyMessage, ThrownString, ThrownNull}

\* What a mock's query can reject with.
RejectValues == {ErrApiUnavailable, ErrEmptyMessage, ThrownString, ThrownNull}

\* What a mock's query can resolve with.
MockResponses(c) ==
  { Response(c.name, c.provider, "OK", 50, None),
    Response(c.name, c.provider, "", 0, Some("API unavailable")) }

\* FilterConfigured without the filter: every supplied client is held.
FilterNothing(list) == list

\* MultiModelQuery constructor, options.clients given.
FilterConfigured(list) == SelectSeq(list, isConfigured)

Constructed(list) ==
  /\ keySources = None
  /\ supplied = list
  /\ clients = FilterConfigured(list)
  /\ calls = <<>>
  /\ askPc = "idle"
  /\ askArgs = <<"", None>>
  /\ slots = <<>>
  /\ result = None
  /\ rejection = None
  /\ fnArgs = None
  /\ fnValue = None
  /\ testPc = "idle"
  /\ okSlots = <<>>
  /\ testResult = None
  /\ status = None
  /\ connected = None

\* The adapters the constructor builds when options.clients is not given,
\* in the order of the array literal; name is the default model name.
DefaultAdapters ==
  << [name |-> "gpt-5.2", provider |-> "openai"],
     [name |-> "grok-4-1-fast-reasoning", provider |-> "xai"],
     [name |-> "claude-sonnet-4-6", provider |-> "anthropic"],
     [name |-> "gemini-3-pro-preview", provider |-> "google"] >>

\* What options.keys.<provider> and the provider's environment variable may
\* be: absent, empty, a key, the placeholder.
OptionKeyValues == {None, Some(""), Some("sk-opt"), Some(PLACEHOLDER_KEY)}
EnvKeyValues == {None, Some(""), Some("sk-env"), Some(PLACEHOLDER_KEY)}

\* `a || b` of JavaScript on optional strings: a unless it is absent or ''.
OrElse(a, b) == IF IsSome(a) /\ Truthy(Get(a)) THEN a ELSE b

\* ResolveKey asking the environment first.
ResolveKeyEnvFirst(optKey, envKey) == Get(OrElse(OrElse(envKey, optKey), Some("")))

\* `keys.x || process.env.X_API_KEY || ''`
ResolveKey(optKey, envKey) == Get(OrElse(OrElse(optKey, envKey), Some("")))

\* MultiModelQuery constructor, options.clients not given: the four adapters
\* are built from the resolved keys and filtered by isConfigured.
ConstructedDefault(keys, env) ==
  LET built == [i \in 1..Len(DefaultAdapters) |->
                  Client(DefaultAdapters[i].name, DefaultAdapters[i].provider, "adapter",
                         ResolveKey(keys[i], env[i]), TRUE, DEFAULT_MAX_RETRIES)]
  IN /\ keySources = Some([keys |-> keys, env |-> env])
     /\ supplied = built
     /\ clients = FilterConfigured(built)
     /\ calls = <<>>
     /\ askPc = "idle"
     /\ askArgs = <<"", None>>
     /\ slots = <<>>
     /\ result = None
     /\ rejection = None
     /\ fnArgs = None
     /\ fnValue = None
     /\ testPc = "idle"
     /\ okSlots = <<>>
     /\ testResult = None
     /\ status = None
     /\ connected = None

\* An orchestrator built without options.clients, for any options.keys and
\* any environment.
InitDefault ==
  \E keys \in [1..Len(DefaultAdapters) -> OptionKeyValues] :
    \E env \in [1..Len(DefaultAdapters) -> EnvKeyValues] :
      ConstructedDefault(keys, env)

\* An orchestrator built from any list of at most MaxClients clients.
Init ==
  \E n \in 0..MaxClients : \E profs \in [1..n -> Profiles] :
    Constructed([i \in 1..n |-> MakeClient(i, profs[i])])

\* One adapter of any retry budget.
InitRetry == \E p \in RetryProfiles : Constructed(<<MakeClient(1, p)>>)

\* MultiModelQuery.getStatus
getStatus ==
  [count |-> Len(clients),
   models |-> [i \in 1..Len(clients) |->
                 [name |-> clients[i].name, provider |-> clients[i].provider]]]

\* ------------------------------------------------------------ query calls
\* One call of client.query (or, for a mock under testConnections, of
\* client.testConnection: pc testing while its promise is not settled).
\* pc is pending (a mock's promise not settled),
\* inflight (an adapter's transport attempt running), sleeping (backoff
\* timer running), settled, or threw (the call threw synchronously); slot is
\* the index in ask's list, 0 for a call made directly on the client;
\* testSlot is the index in testConnections' list, 0 for any other call.
\* attempt, invocations, sleeps, lastError and surfaced are withRetry's: the
\* loop index, the calls of fn made, the waits made, the variable lastError
\* and the error withRetry threw.  fails, transFails, lastThrown and returned
\* record what the transport did: the attempts that threw, those of them
\* that threw a transient error, those that threw an error carrying a
\* retry-after header, the value the latest one threw and the value an
\* attempt resolved with.
Call(c, slot, q, sp, pc, invocations, outcome) ==
  [client |-> c, slot |-> slot, prompt |-> q, systemPrompt |-> sp, pc |-> pc,
   attempt |-> 0, invocations |-> invocations, sleeps |-> <<>>,
   lastError |-> None, surfaced |-> None, outcome |-> outcome,
   fails |-> 0, transFails |-> 0, hinted |-> 0, lastThrown |-> None,
   returned |-> None, testSlot |-> 0]

RECURSIVE Sum(_)
Sum(seq) == IF seq = <<>> THEN 0 ELSE Head(seq) + Sum(Tail(seq))

\* Date.now() - startTime of an adapter's query: the backoff waits so far
\* (a transport attempt itself takes no time in this model).
Elapsed(call) == Sum(call.sleeps)

\* The catch block of an adapter's query: console.error reads error.message,
\* then createErrorResponse is returned.
QueryCatch(c, error) ==
  IF MessageReadThrows(error) THEN Rejected(TypeErrorNull)
  ELSE Resolved(createErrorResponse(c, error))

\* StartQuery without the isConfigured check: the transport is always tried.
StartQueryUnguarded(c, slot, q, sp) ==
  IF c.kind = "mock" THEN Call(c, slot, q, sp, "pending", 0, None)
  ELSE Call(c, slot, q, sp, "inflight", 1, None)

\* query up to its first await.  An adapter that is not configured returns
\* the configuration error at once; otherwise withRetry makes attempt 0.
StartQuery(c, slot, q, sp) ==
  IF c.kind = "mock" THEN Call(c, slot, q, sp, "pending", 0, None)
  ELSE IF ~isConfigured(c)
    THEN Call(c, slot, q, sp, "settled", 0,
              Some(Resolved(createErrorResponse(c,
                     Thrown("Error", None, "API key not configured", None)))))
  ELSE Call(c, slot, q, sp, "inflight", 1, None)

\* withRetry throws err: query's catch block settles the call.
Surface(call, err) ==
  [call EXCEPT !.pc = "settled", !.surfaced = Some(err),
               !.outcome = Some(QueryCatch(call.client, err))]

\* ShouldRetry without the classifier: any error is retried within budget.
ShouldRetryAnyError(call, err) == call.attempt < call.client.maxRetries

\* ShouldRetry with `attempt <= maxRetries`: the last attempt is retried too.
ShouldRetryInclusive(call, err) ==
  call.attempt <= call.client.maxRetries /\ isRetryableError(err)

\* ShouldRetry with one attempt counter shared by all the running calls.
ShouldRetrySharedBudget(call, err) ==
  /\ Sum([j \in 1..Len(calls) |-> calls[j].attempt]) < call.client.maxRetries
  /\ isRetryableError(err)

\* ShouldRetry without the budget: a transient error is always retried.
ShouldRetryNoBudget(call, err) == isRetryableError(err)

\* withRetry, the condition of line 100.
ShouldRetry(call, err) ==
  call.attempt < call.client.maxRetries /\ isRetryableError(err)

\* WithRetryCatch throwing the error of the attempt before, when there is one.
WithRetryCatchStale(call, err) ==
  LET seen == [call EXCEPT !.lastError = Some(err)]
  IN IF call.attempt < call.client.maxRetries /\ isRetryableError(err)
       THEN [seen EXCEPT !.pc = "sleeping",
                         !.sleeps = Append(@, retryDelay(call.attempt, err))]
       ELSE Surface(seen, IF IsSome(call.lastError) THEN Get(call.lastError) ELSE err)

\* WithRetryCatch sleeping the delay of the next attempt index.
WithRetryCatchDelayNextIndex(call, err) ==
  LET seen == [call EXCEPT !.lastError = Some(err)]
  IN IF ShouldRetry(call, err)
       THEN [seen EXCEPT !.pc = "sleeping",
                         !.sleeps = Append(@, retryDelay(call.attempt + 1, err))]
       ELSE Surface(seen, err)

\* withRetry, the catch block: sleep and go on, or throw err.
WithRetryCatch(call, err) ==
  LET seen == [call EXCEPT !.lastError = Some(err)]
  IN IF ShouldRetry(call, err)
       THEN [seen EXCEPT !.pc = "sleeping",
                         !.sleeps = Append(@, retryDelay(call.attempt, err))]
       ELSE Surface(seen, err)

\* WithRetryReturn returning the value of attempt 0 only: a later success
\* falls through to `throw lastError`.
WithRetryReturnFirstOnly(call, text) ==
  IF call.attempt = 0
    THEN [call EXCEPT !.pc = "settled",
                      !.outcome = Some(Resolved(Response(call.client.name,
                                     call.client.provider, text, Elapsed(call), None)))]
    ELSE Surface(call, Get(call.lastError))

\* withRetry returns the transport's value and query builds its Response.
WithRetryReturn(call, text) ==
  [call EXCEPT !.pc = "settled",
               !.outcome = Some(Resolved(Response(call.client.name, call.client.provider,
                                                  text, Elapsed(call), None)))]

\* NextAttempt without attempt++: the loop index never advances.
NextAttemptSameIndex(call) ==
  [call EXCEPT !.pc = "inflight", !.invocations = @ + 1]

\* withRetry after the sleep: attempt++, the loop condition, and the next
\* call of fn; past the loop, `throw lastError`.
NextAttempt(call) ==
  IF call.attempt + 1 <= call.client.maxRetries
    THEN [call EXCEPT !.pc = "inflight", !.attempt = @ + 1, !.invocations = @ + 1]
    ELSE Surface([call EXCEPT !.attempt = @ + 1], Get(call.lastError))

\* ------------------------------------------------------------------- ask
\* PlaceResponse where a failed entry replaces every entry.
PlaceResponsePoisons(values, i, r) ==
  IF IsSome(r.error) THEN [k \in DOMAIN values |-> Some(r)]
  ELSE [values EXCEPT ![i] = Some(r)]

\* PlaceResponse storing values in the order they arrive.
PlaceResponseArrival(values, i, r) ==
  LET free == {k \in DOMAIN values : ~IsSome(values[k])}
  IN IF free = {} THEN values
     ELSE [values EXCEPT ![CHOOSE k \in free : \A m \in free : k <= m] = Some(r)]

\* Promise.all stores each value at the index of its promise.
PlaceResponse(values, i, r) == [values EXCEPT ![i] = Some(r)]

\* CatchHandler without the catch: a rejection reaches Promise.all.
CatchHandlerRethrows(c, outcome) ==
  IF outcome.kind = "resolve" THEN outcome.resp ELSE None

\* The .catch handler of ask applied to a settled query: the Response that
\* goes to Promise.all, or None when the handler itself throws.
CatchHandler(c, outcome) ==
  IF outcome.kind = "resolve" THEN outcome.resp
  ELSE IF MessageReadThrows(Get(outcome.err)) THEN None
  ELSE Some(SynthesizedResponse(c, Get(outcome.err)))

IsSettled(call) == call.pc \in {"settled", "threw"}

AllSettled == \A i \in 1..Len(calls) : IsSettled(calls[i])

\* One element of the array testConnections returns.
ConnectionEntry(c, ok) == [model |-> c.name, provider |-> c.provider, ok |-> ok]

\* The prompt the adapters' testConnection sends.
TEST_PROMPT == "Test connection. Respond with: OK"

\* AdapterTestConnection without the check of the answer text.
AdapterTestConnectionNoTextCheck(outcome) ==
  IF outcome.kind = "resolve"
    THEN Resolved(HasNoError(Get(outcome.resp)))
    ELSE Resolved(FALSE)

\* An adapter's testConnection, given how its query settled: true when the
\* Response has no error and its text includes 'OK'; false when query threw.
AdapterTestConnection(outcome) ==
  IF outcome.kind = "resolve"
    THEN Resolved(HasNoError(Get(outcome.resp))
                  /\ includes(Chars(Get(outcome.resp).response), Chars("OK")))
    ELSE Resolved(FALSE)

\* TestCallback without the try/catch: a rejection reaches Promise.all.
TestCallbackRethrows(c, outcome) ==
  IF outcome.kind = "resolve" THEN Some(ConnectionEntry(c, Get(outcome.resp))) ELSE None

\* The async callback of testConnections (lines 141-148), given how
\* client.testConnection() settled: the entry that goes to Promise.all (None
\* would be a rejection; the catch block leaves none).
TestCallback(c, outcome) ==
  IF outcome.kind = "resolve" THEN Some(ConnectionEntry(c, Get(outcome.resp)))
  ELSE Some(ConnectionEntry(c, FALSE))

\* PlaceOk storing the entries in the order they arrive.
PlaceOkArrival(values, i, entry) ==
  LET free == {k \in DOMAIN values : ~IsSome(values[k])}
  IN IF free = {} THEN values
     ELSE [values EXCEPT ![CHOOSE k \in free : \A m \in free : k <= m] = Some(entry)]

\* Promise.all of testConnections stores each entry at the index of its
\* promise.
PlaceOk(values, i, entry) == [values EXCEPT ![i] = Some(entry)]

\* A step of a call made by testConnections: when the client's
\* testConnection settles, the callback's entry goes to Promise.all.
SettleTest(newCall) ==
  /\ IF IsSome(newCall.outcome)
       THEN LET tested == IF newCall.client.kind = "adapter"
                            THEN AdapterTestConnection(Get(newCall.outcome))
                            ELSE Get(newCall.outcome)
                entry == TestCallback(newCall.client, tested)
            IN IF IsSome(entry)
                 THEN okSlots' = PlaceOk(okSlots, newCall.testSlot, Get(entry)) /\ testPc' = testPc
                 ELSE okSlots' = okSlots /\ testPc' = "rejected"
       ELSE UNCHANGED <<testPc, okSlots>>
  /\ UNCHANGED <<askPc, slots, rejection, testResult, status, connected>>

\* A step of the query made by a testConnection that was called directly on
\* an adapter: when the query settles, testConnection returns.
SettleDirectTest(newCall) ==
  /\ IF IsSome(newCall.outcome)
       THEN /\ connected' = Some(AdapterTestConnection(Get(newCall.outcome)))
            /\ testPc' = "tested"
       ELSE UNCHANGED <<connected, testPc>>
  /\ UNCHANGED <<askPc, slots, rejection, okSlots, testResult, status>>

\* A step of a query call: when it settles a call of ask, the .catch handler
\* runs and Promise.all records the value or rejects.
Settle(i, newCall) ==
  /\ calls' = [calls EXCEPT ![i] = newCall]
  /\ IF testPc = "waiting"
       THEN SettleTest(newCall)
       ELSE IF testPc = "testing"
       THEN SettleDirectTest(newCall)
       ELSE /\ IF newCall.slot > 0 /\ IsSome(newCall.outcome)
                 THEN LET handled == CatchHandler(newCall.client, Get(newCall.outcome))
                      IN IF IsSome(handled)
                           THEN /\ slots' = PlaceResponse(slots, newCall.slot, Get(handled))
                                /\ UNCHANGED <<askPc, rejection>>
                           ELSE /\ askPc' = IF askPc = "waiting" THEN "rejected" ELSE askPc
                                /\ rejection' = IF askPc = "waiting" THEN Some(TypeErrorNull)
                                                                      ELSE rejection
                                /\ UNCHANGED slots
                 ELSE UNCHANGED <<askPc, slots, rejection>>
            /\ UNCHANGED testVars
  /\ UNCHANGED <<keySources, supplied, clients, askArgs, result, fnArgs, fnValue>>

\* Dispatch that calls query on the first held client only.
DispatchFirstOnly(list, q, sp, throwAt) ==
  [i \in 1..Min(1, Len(list)) |->
     IF i = throwAt
       THEN Call(list[i], i, q, sp, "threw", 0, Some(Rejected(ErrApiUnavailable)))
       ELSE StartQuery(list[i], i, q, sp)]

\* The calls ask's map makes: query on each held client in list order; when
\* the query of client throwAt throws synchronously, map stops there.
Dispatch(list, q, sp, throwAt) ==
  [i \in 1..(IF throwAt = 0 THEN Len(list) ELSE throwAt) |->
     IF i = throwAt
       THEN Call(list[i], i, q, sp, "threw", 0, Some(Rejected(ErrApiUnavailable)))
       ELSE StartQuery(list[i], i, q, sp)]

\* ask(question, systemPrompt) up to `await Promise.all`.
Ask(q, sp, throwAt) ==
  /\ askPc # "waiting"
  /\ testPc # "waiting"
  /\ AllSettled
  /\ throwAt > 0 => clients[throwAt].kind = "mock"
  /\ calls' = Dispatch(clients, q, sp, throwAt)
  /\ askArgs' = <<q, sp>>
  /\ slots' = [i \in 1..Len(clients) |-> None]
  /\ result' = None
  /\ IF throwAt = 0
       THEN askPc' = "waiting" /\ rejection' = None
       ELSE askPc' = "rejected" /\ rejection' = Some(ErrApiUnavailable)
  /\ testPc' = "idle"
  /\ okSlots' = <<>>
  /\ testResult' = None
  /\ status' = None
  /\ connected' = None
  /\ UNCHANGED <<keySources, supplied, clients, fnArgs, fnValue>>

\* `responses.filter((r) => !r.error).length`
CountSuccess(responses) ==
  Cardinality({i \in 1..Len(responses) : HasNoError(responses[i])})

\* MultiModelResult counting every response as a success.
MultiModelResultCountsAll(question, responses) ==
  [question |-> question, responses |-> responses,
   successCount |-> Len(responses), errorCount |-> 0]

\* The object ask returns (totalLatency and timestamp left out).
MultiModelResult(question, responses) ==
  [question |-> question, responses |-> responses,
   successCount |-> CountSuccess(responses),
   errorCount |-> Len(responses) - CountSuccess(responses)]

\* AskReturn dropping from the held list the clients whose entry has an error.
AskReturnDropsFailed ==
  /\ askPc = "waiting"
  /\ \A i \in 1..Len(slots) : IsSome(slots[i])
  /\ result' = Some(MultiModelResult(askArgs[1], [i \in 1..Len(slots) |-> Get(slots[i])]))
  /\ askPc' = "resolved"
  /\ LET Healthy(c) == \A i \in 1..Len(clients) :
                         clients[i] = c => HasNoError(Get(slots[i]))
     IN clients' = SelectSeq(clients, Healthy)
  /\ UNCHANGED <<keySources, supplied, calls, askArgs, slots, rejection, fnArgs, fnValue, testVars>>

\* AskReturn resolving as soon as one query has settled, with the entries
\* there are.
AskReturnFirstSettled ==
  /\ askPc = "waiting"
  /\ \E i \in 1..Len(slots) : IsSome(slots[i])
  /\ result' = Some(MultiModelResult(askArgs[1],
                      [k \in 1..Len(SelectSeq(slots, IsSome)) |->
                         Get(SelectSeq(slots, IsSome)[k])]))
  /\ askPc' = "resolved"
  /\ UNCHANGED <<keySources, supplied, clients, calls, askArgs, slots, rejection, fnArgs, fnValue,
                 testVars>>

\* ask after `await Promise.all`: lines 123-133.
AskReturn ==
  /\ askPc = "waiting"
  /\ \A i \in 1..Len(slots) : IsSome(slots[i])
  /\ result' = Some(MultiModelResult(askArgs[1], [i \in 1..Len(slots) |-> Get(slots[i])]))
  /\ askPc' = "resolved"
  /\ UNCHANGED <<keySources, supplied, clients, calls, askArgs, slots, rejection, fnArgs, fnValue,
                 testVars>>

\* A mock's query promise settles.
MockSettle(i, outcome) ==
  /\ calls[i].pc = "pending"
  /\ Settle(i, [calls[i] EXCEPT !.pc = "settled", !.outcome = Some(outcome)])

\* An adapter's transport attempt resolves.
TransportResolve(i, text) ==
  /\ calls[i].pc = "inflight"
  /\ Settle(i, [WithRetryReturn(calls[i], text) EXCEPT !.returned = Some(text)])

\* An adapter's transport attempt throws.
TransportThrow(i, err) ==
  /\ calls[i].pc = "inflight"
  /\ Settle(i, [WithRetryCatch(calls[i], err) EXCEPT
                  !.fails = @ + 1,
                  !.transFails = @ + (IF isRetryableError(err) THEN 1 ELSE 0),
                  !.hinted = @ + (IF IsSome(err.retryAfter) THEN 1 ELSE 0),
                  !.lastThrown = Some(err)])

\* The backoff timer of a sleeping call fires.
SleepDone(i) ==
  /\ calls[i].pc = "sleeping"
  /\ Settle(i, NextAttempt(calls[i]))

\* query called directly on a supplied adapter, outside ask.
DirectQuery(k, q, sp) ==
  /\ askPc # "waiting"
  /\ AllSettled
  /\ supplied[k].kind = "adapter"
  /\ calls' = <<StartQuery(supplied[k], 0, q, sp)>>
  /\ askPc' = "idle"
  /\ askArgs' = <<"", None>>
  /\ slots' = <<>>
  /\ result' = None
  /\ rejection' = None
  /\ UNCHANGED <<keySources, supplied, clients, fnArgs, fnValue, testVars>>

\* testConnection called directly on a supplied adapter: it calls query with
\* TEST_PROMPT; the query of an unconfigured adapter has settled at once.
DirectTest(k) ==
  /\ askPc # "waiting"
  /\ testPc \notin {"waiting", "testing"}
  /\ AllSettled
  /\ supplied[k].kind = "adapter"
  /\ LET call == StartQuery(supplied[k], 0, TEST_PROMPT, None)
     IN /\ calls' = <<call>>
        /\ IF IsSome(call.outcome)
             THEN /\ connected' = Some(AdapterTestConnection(Get(call.outcome)))
                  /\ testPc' = "tested"
             ELSE /\ connected' = None
                  /\ testPc' = "testing"
  /\ okSlots' = <<>>
  /\ testResult' = None
  /\ status' = None
  /\ askPc' = "idle"
  /\ askArgs' = <<"", None>>
  /\ slots' = <<>>
  /\ result' = None
  /\ rejection' = None
  /\ UNCHANGED <<keySources, supplied, clients, fnArgs, fnValue>>

\* ------------------------------------------- testConnections, getStatus
\* What a mock's testConnection can reject with.
TestRejectValues == {ErrApiUnavailable, ThrownNull}

\* The calls testConnections' map makes: testConnection on each held client
\* in list order.  A mock's promise is pending (pc "testing"); an adapter's
\* testConnection calls its own query with TEST_PROMPT; the testConnection
\* of client throwAt throws synchronously, inside the callback's try.
DispatchTests(list, throwAt) ==
  [i \in 1..Len(list) |->
     [(IF i = throwAt
         THEN Call(list[i], 0, "", None, "threw", 0, Some(Rejected(ErrApiUnavailable)))
       ELSE IF list[i].kind = "mock"
         THEN Call(list[i], 0, "", None, "testing", 0, None)
       ELSE StartQuery(list[i], 0, TEST_PROMPT, None))
      EXCEPT !.testSlot = i]]

\* testConnections() up to `await Promise.all`.  One operation of the
\* orchestrator runs at a time; what the earlier one returned is gone.
TestConnections(throwAt) ==
  /\ askPc # "waiting"
  /\ testPc # "waiting"
  /\ AllSettled
  /\ throwAt > 0 => clients[throwAt].kind = "mock"
  /\ calls' = DispatchTests(clients, throwAt)
  /\ testPc' = "waiting"
  /\ okSlots' = [i \in 1..Len(clients) |->
                   IF i = throwAt
                     THEN TestCallback(clients[i], Rejected(ErrApiUnavailable))
                     ELSE None]
  /\ testResult' = None
  /\ status' = None
  /\ connected' = None
  /\ askPc' = "idle"
  /\ askArgs' = <<"", None>>
  /\ slots' = <<>>
  /\ result' = None
  /\ rejection' = None
  /\ UNCHANGED <<keySources, supplied, clients, fnArgs, fnValue>>

\* testConnections after `await Promise.all`: `return results`.
TestReturn ==
  /\ testPc = "waiting"
  /\ \A i \in 1..Len(okSlots) : IsSome(okSlots[i])
  /\ testResult' = Some([i \in 1..Len(okSlots) |-> Get(okSlots[i])])
  /\ testPc' = "resolved"
  /\ UNCHANGED <<keySources, supplied, clients, calls, askPc, askArgs, slots, result, rejection,
                 fnArgs, fnValue, okSlots, status, connected>>

\* A mock's testConnection promise settles.
MockTestSettle(i, outcome) ==
  /\ calls[i].pc = "testing"
  /\ Settle(i, [calls[i] EXCEPT !.pc = "settled", !.outcome = Some(outcome)])

\* getStatus() called between operations; the caller keeps what it returned.
GetStatus ==
  /\ askPc # "waiting"
  /\ testPc # "waiting"
  /\ AllSettled
  /\ status = None
  /\ status' = Some(getStatus)
  /\ UNCHANGED <<keySources, supplied, clients, calls, askPc, askArgs, slots, result, rejection,
                 fnArgs, fnValue, testPc, okSlots, testResult, connected>>

\* ---------------------------------------------------------- specifications
TestConnectionsStep == \E throwAt \in 0..Len(clients) : TestConnections(throwAt)

MockTestResolves ==
  \E i \in 1..Len(calls) : \E ok \in BOOLEAN : MockTestSettle(i, Resolved(ok))

MockTestRejects ==
  \E i \in 1..Len(calls) : \E e \in TestRejectValues : MockTestSettle(i, Rejected(e))

AskStep ==
  \E in \in AskInputs : \E throwAt \in 0..Len(clients) : Ask(in[1], in[2], throwAt)

MockResolves ==
  \E i \in 1..Len(calls) : \E r \in MockResponses(calls[i].client) :
    MockSettle(i, Resolved(r))

MockRejects ==
  \E i \in 1..Len(calls) : \E e \in RejectValues : MockSettle(i, Rejected(e))

TransportResolves ==
  \E i \in 1..Len(calls) : \E t \in TransportTexts : TransportResolve(i, t)

TransportThrows ==
  \E i \in 1..Len(calls) : \E e \in TransportErrors : TransportThrow(i, e)

SleepFires == \E i \in 1..Len(calls) : SleepDone(i)

DirectQueryStep ==
  \E k \in 1..Len(supplied) : \E in \in AskInputs : DirectQuery(k, in[1], in[2])

DirectTestStep == \E k \in 1..Len(supplied) : DirectTest(k)

TestTransportResolves ==
  \E i \in 1..Len(calls) : \E t \in TestTexts : TransportResolve(i, t)

RetryTransportThrows ==
  \E i \in 1..Len(calls) : \E e \in RetryErrors : TransportThrow(i, e)

\* The orchestrator over its held clients.
Next ==
  \/ AskStep
  \/ AskReturn
  \/ MockResolves
  \/ MockRejects
  \/ TransportResolves
  \/ TransportThrows
  \/ SleepFires
  \/ TestConnectionsStep
  \/ TestReturn
  \/ MockTestResolves
  \/ MockTestRejects
  \/ GetStatus

Spec == Init /\ [][Next]_vars

\* Every promise a client returned eventually settles, every transport
\* attempt eventually settles, every backoff timer eventually fires, and the
\* continuation after `await Promise.all` runs once the promise has a value.
Fairness ==
  /\ WF_vars(MockResolves \/ MockRejects)
  /\ WF_vars(MockTestResolves \/ MockTestRejects)
  /\ WF_vars(TransportResolves \/ TransportThrows)
  /\ WF_vars(SleepFires)
  /\ WF_vars(AskReturn)
  /\ WF_vars(TestReturn)

\* An orchestrator built from any list of at most MaxLiveClients clients.
InitLive ==
  \E n \in 0..MaxLiveClients : \E profs \in [1..n -> Profiles] :
    Constructed([i \in 1..n |-> MakeClient(i, profs[i])])

\* The orchestrator when everything that was started makes progress.
SpecLive == InitLive /\ [][Next]_vars /\ Fairness

\* One adapter queried directly, one call at a time.
NextRetry ==
  \/ DirectQueryStep
  \/ TransportResolves
  \/ RetryTransportThrows
  \/ SleepFires

SpecRetry == InitRetry /\ [][NextRetry]_vars

\* The orchestrator built by default, asked for its status.
NextDefault == GetStatus

SpecDefault == InitDefault /\ [][NextDefault]_vars

\* One adapter whose testConnection is called directly, one call at a time.
NextTest ==
  \/ DirectTestStep
  \/ TestTransportResolves
  \/ RetryTransportThrows
  \/ SleepFires

SpecTest == InitRetry /\ [][NextTest]_vars

\* ------------------------------------------- the helpers called directly
\* isRetryableError and retryDelay are exported and called on their own.
\* No orchestrator is involved: its variables stay as for an empty list.
Standalone(args) ==
  /\ keySources = None
  /\ supplied = <<>>
  /\ clients = <<>>
  /\ calls = <<>>
  /\ askPc = "idle"
  /\ askArgs = <<"", None>>
  /\ slots = <<>>
  /\ result = None
  /\ rejection = None
  /\ fnArgs = Some(args)
  /\ fnValue = None
  /\ testPc = "idle"
  /\ okSlots = <<>>
  /\ testResult = None
  /\ status = None
  /\ connected = None

\* Values of error.status and of error.statusCode (absent, or a number).
StatusValues == {None} \cup {Some(n) : n \in {429, 500, 502, 503, 529, 400, 401, 403, 404}}
StatusCodeValues == {None, Some(503), Some(401)}

\* Messages of the Errors classified: one for each pattern, in the letter
\* case the runtime and the providers use, and messages with no pattern.
ErrorMessages ==
  {"connect ECONNREFUSED 127.0.0.1:3000", "read ECONNRESET", "connect ETIMEDOUT",
   "getaddrinfo ENOTFOUND api.x.ai", "Request Timeout", "Rate limit",
   "RATE_LIMIT_EXCEEDED", "The server is overloaded", "Insufficient Capacity",
   "network error", "socket hang up", "fetch failed", "Service unavailable",
   "Internal Server Error", "Content policy violation", "Unauthorized",
   "Invalid API key", ""}

\* The values isRetryableError is called with: null, undefined, strings,
\* Errors and plain objects with or without status and statusCode.
ClassifierInputs ==
  {ThrownNull, ThrownUndefined}
  \cup {Thrown("string", None, m, None) : m \in {"", "boom", "Request Timeout"}}
  \cup {[Thrown("Error", st, m, None) EXCEPT !.statusCode = sc] :
          st \in StatusValues, sc \in StatusCodeValues, m \in ErrorMessages}
  \cup {[Thrown("object", st, "", None) EXCEPT !.statusCode = sc] :
          st \in StatusValues, sc \in StatusCodeValues}

InitClassify == \E e \in ClassifierInputs : Standalone([error |-> e])

\* isRetryableError(error) is called and returns.
Classify ==
  /\ IsSome(fnArgs)
  /\ fnValue = None
  /\ fnValue' = Some(isRetryableError(Get(fnArgs).error))
  /\ UNCHANGED <<keySources, supplied, clients, calls, askPc, askArgs, slots, result, rejection, fnArgs,
                 testVars>>

NextClassify == Classify

SpecClassify == InitClassify /\ [][NextClassify]_vars

\* Values of the retry-after header.
RetryAfterValues == {"5", "1", "60", " 7", "30s", "5.5", "61", "120", "0", "-5", "abc", ""}

\* The errors retryDelay is called with: none, null, an Error without
\* headers, a plain object or an Error with a retry-after header.
BackoffInputs ==
  {ThrownUndefined, ThrownNull, Err503}
  \cup {Thrown("object", None, "", Some(h)) : h \in RetryAfterValues}
  \cup {Thrown("Error", Some(429), "Rate limit", Some(h)) : h \in {"5", "120"}}

InitBackoff ==
  \E a \in 0..MaxAttempt : \E e \in BackoffInputs :
    Standalone([attempt |-> a, error |-> e])

\* retryDelay(attempt, error) is called and returns.
Delay ==
  /\ IsSome(fnArgs)
  /\ fnValue = None
  /\ fnValue' = Some(retryDelay(Get(fnArgs).attempt, Get(fnArgs).error))
  /\ UNCHANGED <<keySources, supplied, clients, calls, askPc, askArgs, slots, result, rejection, fnArgs,
                 testVars>>

NextBackoff == Delay

SpecBackoff == InitBackoff /\ [][NextBackoff]_vars

\* ------------------------------------------------------------- properties
HasOutcome(call, kind) == IsSome(call.outcome) /\ Get(call.outcome).kind = kind
RejectedWith(call) == Get(Get(call.outcome).err)
ResolvedWith(call) == Get(Get(call.outcome).resp)

\* Every query of the current ask settled the way C1 supposes: it resolved
\* with a Response or rejected with an Error (no other rejection value, no
\* synchronous throw).
OutcomesAsSupposed ==
  \A i \in 1..Len(calls) :
    /\ calls[i].pc # "threw"
    /\ HasOutcome(calls[i], "reject") => RejectedWith(calls[i]).type = "Error"

\* C1: ask never rejects.  While every client's query resolves with a
\* Response or rejects with an Error, ask is never rejected; each rejected
\* query is replaced in place by a synthesized Response of that client with
\* error set and empty text; and once every query has settled every entry is
\* there, so ask can return.
C1_AskNeverRejects ==
  OutcomesAsSupposed =>
    /\ askPc # "rejected"
    /\ rejection = None
    /\ \A i \in 1..Len(calls) :
         (calls[i].slot > 0 /\ HasOutcome(calls[i], "reject")) =>
           /\ IsSome(slots[i])
           /\ Get(slots[i]).modelName = calls[i].client.name
           /\ Get(slots[i]).provider = calls[i].client.provider
           /\ Get(slots[i]).response = ""
           /\ IsSome(Get(slots[i]).error)
    /\ (askPc = "waiting" /\ AllSettled) => \A i \in 1..Len(slots) : IsSome(slots[i])

\* A resolved ask one of whose clients rejected with an Error.
C1_Witness ==
  /\ askPc = "resolved"
  /\ OutcomesAsSupposed
  /\ \E i \in 1..Len(calls) : HasOutcome(calls[i], "reject")
  /\ Get(result).errorCount >= 1

\* C2: failure isolation.  The entry of a client whose query resolved with
\* a Response r is exactly r, as soon as it resolves and in the result,
\* whatever the other clients have done or do.
C2_FailureIsolation ==
  \A j \in 1..Len(calls) :
    (calls[j].slot > 0 /\ HasOutcome(calls[j], "resolve")) =>
      /\ slots[j] = Some(ResolvedWith(calls[j]))
      /\ askPc = "resolved" => Get(result).responses[j] = ResolvedWith(calls[j])

\* A result holding a successful entry, error unset, next to a client that
\* rejected or returned an error Response.
C2_Witness ==
  /\ askPc = "resolved"
  /\ \E j, k \in 1..Len(calls) :
       /\ j # k
       /\ HasOutcome(calls[j], "resolve")
       /\ ResolvedWith(calls[j]).error = None
       /\ Get(result).responses[j].error = None
       /\ \/ HasOutcome(calls[k], "reject")
          \/ HasOutcome(calls[k], "resolve") /\ IsSome(ResolvedWith(calls[k]).error)

\* C3: order stability.  At every moment the entry at index i, once there,
\* comes from the query of the i-th held client, and the result lists the
\* entries in client-list order, in whatever order the queries settle.
C3_OrderStability ==
  /\ \A i \in 1..Len(slots) :
       IsSome(slots[i]) =>
         /\ i <= Len(calls)
         /\ IsSome(calls[i].outcome)
         /\ calls[i].client = clients[i]
         /\ Get(slots[i]).modelName = clients[i].name
         /\ Get(slots[i]).provider = clients[i].provider
         /\ HasOutcome(calls[i], "resolve") => Get(slots[i]) = ResolvedWith(calls[i])
         /\ HasOutcome(calls[i], "reject") => IsSome(Get(slots[i]).error)
  /\ askPc = "resolved" =>
       /\ Len(Get(result).responses) = Len(clients)
       /\ \A i \in 1..Len(clients) :
            /\ Get(result).responses[i].modelName = clients[i].name
            /\ Get(result).responses[i].provider = clients[i].provider
            /\ HasOutcome(calls[i], "resolve") =>
                 Get(result).responses[i] = ResolvedWith(calls[i])
            /\ HasOutcome(calls[i], "reject") =>
                 IsSome(Get(result).responses[i].error)

\* The second client has settled while the first is still running.
C3_Witness ==
  /\ askPc = "waiting"
  /\ Len(slots) >= 2
  /\ IsSome(slots[2])
  /\ ~IsSome(slots[1])
  /\ ~IsSettled(calls[1])

\* A Response whose error is unset or empty.
NoError(r) == r.error = None \/ r.error = Some("")

ConfiguredIndexes == {i \in 1..Len(supplied) : isConfigured(supplied[i])}

\* The k-th smallest element of a set of indexes.
Kth(set, k) == CHOOSE i \in set : Cardinality({j \in set : j <= i}) = k

\* C5: construction filter.  The held list is the supplied clients that
\* report themselves configured, in the supplied order, and getStatus gives
\* their number and their names and providers in that order; a client that
\* is not configured is in neither.
C5_ConstructionFilter ==
  /\ Len(clients) = Cardinality(ConfiguredIndexes)
  /\ getStatus.count = Cardinality(ConfiguredIndexes)
  /\ Len(getStatus.models) = Cardinality(ConfiguredIndexes)
  /\ \A k \in 1..Cardinality(ConfiguredIndexes) :
       /\ clients[k] = supplied[Kth(ConfiguredIndexes, k)]
       /\ getStatus.models[k] = [name |-> supplied[Kth(ConfiguredIndexes, k)].name,
                                 provider |-> supplied[Kth(ConfiguredIndexes, k)].provider]
  /\ \A i \in (1..Len(supplied)) \ ConfiguredIndexes :
       /\ \A k \in 1..Len(clients) : clients[k] # supplied[i]
       /\ \A k \in 1..Len(getStatus.models) : getStatus.models[k].name # supplied[i].name

\* A client that is not configured supplied ahead of one that is.
C5_Witness ==
  /\ Len(supplied) = 2
  /\ ~isConfigured(supplied[1])
  /\ isConfigured(supplied[2])
  /\ getStatus.count = 1
  /\ getStatus.models[1].name = supplied[2].name

\* C6: dispatch set.  Once ask has been called, query has been invoked
\* exactly once on each held client, with the question and systemPrompt of
\* the call, and on no client that is not configured.
C6_DispatchSet ==
  askPc # "idle" =>
    /\ Len(calls) = Len(clients)
    /\ \A i \in 1..Len(calls) :
         /\ calls[i].client = clients[i]
         /\ calls[i].prompt = askArgs[1]
         /\ calls[i].systemPrompt = askArgs[2]
         /\ isConfigured(calls[i].client)

\* C7: retry bound.  A withRetry call invokes the operation at most
\* maxRetries + 1 times, and its attempt index stays within 0..maxRetries.
C7_RetryBound ==
  \A i \in 1..Len(calls) :
    /\ calls[i].invocations <= calls[i].client.maxRetries + 1
    /\ calls[i].attempt \in 0..calls[i].client.maxRetries
    /\ calls[i].pc = "inflight" => calls[i].invocations = calls[i].attempt + 1

\* maxRetries = 2 and three invocations made.
C7_Witness ==
  \E i \in 1..Len(calls) :
    /\ calls[i].client.maxRetries = 2
    /\ calls[i].invocations = 3
    /\ calls[i].attempt = 2

\* C8: retry until success.  When the first k attempts threw transient
\* errors and attempt k resolved, the operation was invoked exactly k + 1
\* times, k <= maxRetries, and query resolves with that value and no error.
C8_RetryUntilSuccess ==
  \A i \in 1..Len(calls) :
    (IsSome(calls[i].returned) /\ calls[i].transFails = calls[i].fails) =>
      /\ calls[i].pc = "settled"
      /\ calls[i].fails <= calls[i].client.maxRetries
      /\ calls[i].invocations = calls[i].fails + 1
      /\ HasOutcome(calls[i], "resolve")
      /\ ResolvedWith(calls[i]).response = Get(calls[i].returned)
      /\ ResolvedWith(calls[i]).error = None

\* One transient failure, then success, with maxRetries = 2.
C8_Witness ==
  \E i \in 1..Len(calls) :
    /\ IsSome(calls[i].returned)
    /\ calls[i].client.maxRetries = 2
    /\ calls[i].fails = 1
    /\ calls[i].transFails = 1
    /\ calls[i].invocations = 2

\* C9: retry exhaustion.  When a call is over and every attempt it made
\* threw a transient error, it made exactly maxRetries + 1 attempts,
\* withRetry threw the error of the last one, and query resolved with a
\* Response whose error is that error's message and whose text is empty.
C9_RetryExhaustion ==
  \A i \in 1..Len(calls) :
    (/\ calls[i].pc = "settled"
     /\ calls[i].returned = None
     /\ calls[i].fails >= 1
     /\ calls[i].transFails = calls[i].fails) =>
      /\ calls[i].invocations = calls[i].client.maxRetries + 1
      /\ calls[i].fails = calls[i].client.maxRetries + 1
      /\ calls[i].surfaced = calls[i].lastThrown
      /\ HasOutcome(calls[i], "resolve")
      /\ ResolvedWith(calls[i]).error = Some(Get(calls[i].lastThrown).message)
      /\ ResolvedWith(calls[i]).response = ""

\* maxRetries = 2, three transient failures, the last one ECONNREFUSED.
C9_Witness ==
  \E i \in 1..Len(calls) :
    /\ calls[i].pc = "settled"
    /\ calls[i].client.maxRetries = 2
    /\ calls[i].fails = 3
    /\ calls[i].transFails = 3
    /\ calls[i].invocations = 3
    /\ calls[i].lastThrown = Some(ErrConnRefused)
    /\ ResolvedWith(calls[i]).error = Some("connect ECONNREFUSED")

\* C10: fatal errors are never retried.  When the latest attempt threw an
\* error that isRetryableError does not classify as transient, the call is
\* over: withRetry threw exactly that error, no attempt and no wait followed
\* it, and a fatal first attempt means one invocation.
C10_FatalNeverRetried ==
  \A i \in 1..Len(calls) :
    (IsSome(calls[i].lastThrown) /\ ~isRetryableError(Get(calls[i].lastThrown))) =>
      /\ calls[i].pc = "settled"
      /\ calls[i].surfaced = calls[i].lastThrown
      /\ calls[i].invocations = calls[i].fails
      /\ Len(calls[i].sleeps) = calls[i].fails - 1
      /\ calls[i].transFails = 0 => calls[i].invocations = 1

\* A fatal error on the second attempt, after a transient one, with budget
\* left.
C10_Witness ==
  \E i \in 1..Len(calls) :
    /\ calls[i].lastThrown = Some(Err401)
    /\ calls[i].client.maxRetries = 2
    /\ calls[i].fails = 2
    /\ calls[i].transFails = 1
    /\ calls[i].invocations = 2

\* C11: maxRetries = 0 disables retrying.  A call on a client with
\* maxRetries = 0 invokes the operation at most once and never waits; once
\* its one attempt has thrown, transient or fatal, the call is over and has
\* surfaced that error.
C11_ZeroDisablesRetry ==
  \A i \in 1..Len(calls) :
    calls[i].client.maxRetries = 0 =>
      /\ calls[i].invocations <= 1
      /\ calls[i].attempt = 0
      /\ calls[i].sleeps = <<>>
      /\ calls[i].fails >= 1 =>
           /\ calls[i].pc = "settled"
           /\ calls[i].invocations = 1
           /\ calls[i].fails = 1
           /\ calls[i].surfaced = calls[i].lastThrown

\* maxRetries = 0 and the one attempt threw a transient error (status 503).
C11_Witness ==
  \E i \in 1..Len(calls) :
    /\ calls[i].client.maxRetries = 0
    /\ calls[i].lastThrown = Some(Err503)
    /\ isRetryableError(Err503)
    /\ calls[i].pc = "settled"
    /\ calls[i].invocations = 1
    /\ calls[i].sleeps = <<>>

\* C12: query is total.  Every adapter query that is over has resolved with
\* a Response, never rejected; when withRetry surfaced a failure the
\* Response has error set.
C12_QueryTotal ==
  \A i \in 1..Len(calls) :
    (calls[i].client.kind = "adapter" /\ calls[i].pc = "settled") =>
      /\ HasOutcome(calls[i], "resolve")
      /\ IsSome(calls[i].surfaced) => IsSome(ResolvedWith(calls[i]).error)

\* C13: unconfigured short-circuit.  A query on an adapter whose
\* isConfigured() is false is over at once: it resolved with a Response
\* carrying the configuration error, empty text and latency 0, and made no
\* transport invocation, no retry and no wait.
C13_UnconfiguredShortCircuit ==
  \A i \in 1..Len(calls) :
    (calls[i].client.kind = "adapter" /\ ~isConfigured(calls[i].client)) =>
      /\ calls[i].pc = "settled"
      /\ HasOutcome(calls[i], "resolve")
      /\ ResolvedWith(calls[i]).error = Some("API key not configured")
      /\ ResolvedWith(calls[i]).response = ""
      /\ ResolvedWith(calls[i]).latency = 0
      /\ ResolvedWith(calls[i]).modelName = calls[i].client.name
      /\ calls[i].invocations = 0
      /\ calls[i].attempt = 0
      /\ calls[i].sleeps = <<>>
      /\ calls[i].fails = 0
      /\ calls[i].returned = None

\* A query made on an adapter holding the placeholder key.
C13_Witness ==
  \E i \in 1..Len(calls) :
    /\ calls[i].client.kind = "adapter"
    /\ calls[i].client.apiKey = PLACEHOLDER_KEY
    /\ calls[i].pc = "settled"
    /\ calls[i].invocations = 0
    /\ IsSome(ResolvedWith(calls[i]).error)

\* C14: Response invariant.  `error` present means the field is set (not
\* undefined).  A Response returned by an adapter's query has error set
\* exactly when no transport attempt of the call resolved, a Response
\* synthesized by ask for a rejected query has error set, and every
\* Response with error set has the empty string as its text; the same holds
\* of the entries of ask's result.
C14_ResponseInvariant ==
  /\ \A i \in 1..Len(calls) :
       /\ (calls[i].client.kind = "adapter" /\ HasOutcome(calls[i], "resolve")) =>
            /\ ResolvedWith(calls[i]).error # None <=> calls[i].returned = None
            /\ ResolvedWith(calls[i]).error # None => ResolvedWith(calls[i]).response = ""
       /\ (calls[i].slot > 0 /\ HasOutcome(calls[i], "reject") /\ IsSome(slots[i])) =>
            /\ Get(slots[i]).error # None
            /\ Get(slots[i]).response = ""
  /\ askPc = "resolved" =>
       \A i \in 1..Len(clients) :
         /\ clients[i].kind = "adapter" =>
              (Get(result).responses[i].error # None <=> calls[i].returned = None)
         /\ HasOutcome(calls[i], "reject") => Get(result).responses[i].error # None
         /\ (clients[i].kind = "adapter" \/ HasOutcome(calls[i], "reject")) =>
              (Get(result).responses[i].error # None =>
                 Get(result).responses[i].response = "")

\* A result holding an adapter's failure whose error is the empty message of
\* the thrown Error, an adapter's success, or a synthesized entry.
C14_Witness ==
  /\ askPc = "resolved"
  /\ Len(clients) = 2
  /\ clients[1].kind = "adapter"
  /\ calls[1].lastThrown = Some(ErrEmptyMessage)
  /\ Get(result).responses[1].error = Some("")
  /\ Get(result).responses[1].response = ""
  /\ \/ HasOutcome(calls[2], "reject")
     \/ clients[2].kind = "adapter" /\ IsSome(calls[2].returned)

\* A direct call of isRetryableError that has returned.
Classified ==
  IsSome(fnArgs) /\ IsSome(fnValue) /\ DOMAIN Get(fnArgs) = {"error"}

\* The status an error carries: its status, or its statusCode when it has no
\* status.
CarriedStatus(e) == IF e.status # None THEN e.status ELSE e.statusCode

CarriesStatusIn(e, codes) ==
  /\ e.type \in {"Error", "object"}
  /\ IsSome(CarriedStatus(e))
  /\ Get(CarriedStatus(e)) \in codes

\* C15: an error that carries a status (status, or statusCode) in
\* {429, 500, 502, 503, 529} is classified transient, whatever its message.
C15_RetryableStatus ==
  (Classified /\ CarriesStatusIn(Get(fnArgs).error, {429, 500, 502, 503, 529})) =>
    Get(fnValue) = TRUE

\* An Error with status 529 and a message that matches no pattern.
C15_Witness ==
  /\ Classified
  /\ Get(fnArgs).error.type = "Error"
  /\ Get(fnArgs).error.status = Some(529)
  /\ Get(fnArgs).error.message = "Content policy violation"
  /\ Get(fnValue) = TRUE

\* C16: an error that carries status 400, 401 or 403 is classified fatal.
C16_FatalStatus ==
  (Classified /\ CarriesStatusIn(Get(fnArgs).error, {400, 401, 403})) =>
    Get(fnValue) = FALSE

\* What the classifier matches of a value: the message of an Error, the
\* string itself, and the string form of a plain object.
ErrorText(e) ==
  IF e.type \in {"Error", "string"} THEN e.message ELSE "[object Object]"

\* The texts of the classified values that contain one of the fourteen
\* patterns when letter case is ignored, one text for each pattern:
\* econnrefused, econnreset, etimedout, enotfound, timeout, rate limit,
\* rate_limit, overloaded, capacity, network, socket hang up, fetch failed,
\* service unavailable, internal server error.
TransientTexts ==
  {"connect ECONNREFUSED 127.0.0.1:3000", "read ECONNRESET", "connect ETIMEDOUT",
   "getaddrinfo ENOTFOUND api.x.ai", "Request Timeout", "Rate limit",
   "RATE_LIMIT_EXCEEDED", "The server is overloaded", "Insufficient Capacity",
   "network error", "socket hang up", "fetch failed", "Service unavailable",
   "Internal Server Error"}

\* C17: decision rule for an error that carries no retryable status.  null
\* and undefined are not transient; any other value is transient exactly
\* when its text contains one of the patterns, letter case ignored.
C17_PatternRule ==
  (Classified /\ ~CarriesStatusIn(Get(fnArgs).error, {429, 500, 502, 503, 529})) =>
    IF Get(fnArgs).error.type \in {"null", "undefined"}
      THEN Get(fnValue) = FALSE
      ELSE Get(fnValue) = (ErrorText(Get(fnArgs).error) \in TransientTexts)

\* An Error with no status whose upper-case message matches rate_limit.
C17_Witness ==
  /\ Classified
  /\ Get(fnArgs).error.type = "Error"
  /\ Get(fnArgs).error.status = None
  /\ Get(fnArgs).error.statusCode = None
  /\ Get(fnArgs).error.message = "RATE_LIMIT_EXCEEDED"
  /\ Get(fnValue) = TRUE

\* A direct call of retryDelay that has returned.
Delayed ==
  IsSome(fnArgs) /\ IsSome(fnValue) /\ DOMAIN Get(fnArgs) = {"attempt", "error"}

\* The retry hint of an error: the retry-after header, when there is one.
HintOf(e) == IF e.type \in {"Error", "object"} THEN e.retryAfter ELSE None

\* min(1000 * 2^attempt, 10000), written out.
ExpectedBackoff(attempt) ==
  CASE attempt = 0 -> 1000
    [] attempt = 1 -> 2000
    [] attempt = 2 -> 4000
    [] attempt = 3 -> 8000
    [] OTHER -> 10000

\* C18: exponential backoff.  For an error with no retry hint, retryDelay
\* returns 1000, 2000, 4000, 8000 for attempts 0..3 and 10000 from attempt 4
\* on.
C18_ExponentialBackoff ==
  (Delayed /\ HintOf(Get(fnArgs).error) = None) =>
    Get(fnValue) = ExpectedBackoff(Get(fnArgs).attempt)

\* Attempt 5 of an Error without headers: the cap.
C18_Witness ==
  /\ Delayed
  /\ Get(fnArgs).error = Err503
  /\ Get(fnArgs).attempt = 5
  /\ Get(fnValue) = 10000

\* The hints that parse (parseInt reads the leading integer) as a positive
\* number of seconds up to 60, with that number.
HintSeconds ==
  ("5" :> 5) @@ ("1" :> 1) @@ ("60" :> 60) @@ (" 7" :> 7) @@ ("30s" :> 30) @@ ("5.5" :> 5)

\* C19: server retry hint.  When the hint parses as a positive number
\* s <= 60, retryDelay returns s * 1000 at every attempt.
C19_RetryHint ==
  (Delayed /\ IsSome(HintOf(Get(fnArgs).error))
           /\ Get(HintOf(Get(fnArgs).error)) \in DOMAIN HintSeconds) =>
    Get(fnValue) = HintSeconds[Get(HintOf(Get(fnArgs).error))] * 1000

\* Hint 5 at attempt 3: 5000, not the exponential 8000.
C19_Witness ==
  /\ Delayed
  /\ HintOf(Get(fnArgs).error) = Some("5")
  /\ Get(fnArgs).attempt = 3
  /\ Get(fnValue) = 5000

\* Hints that are not a number, zero, negative or above 60.
InvalidHints == {"abc", "", "0", "-5", "61", "120"}

\* C20: invalid hint fallback.  With a hint that is not a number, zero,
\* negative or above 60, retryDelay returns the exponential value of the
\* attempt.
C20_InvalidHintFallback ==
  (Delayed /\ IsSome(HintOf(Get(fnArgs).error))
           /\ Get(HintOf(Get(fnArgs).error)) \in InvalidHints) =>
    Get(fnValue) = ExpectedBackoff(Get(fnArgs).attempt)

\* Hint 120 at attempt 2: the exponential 4000.
C20_Witness ==
  /\ Delayed
  /\ HintOf(Get(fnArgs).error) = Some("120")
  /\ Get(fnArgs).attempt = 2
  /\ Get(fnValue) = 4000

\* C21: testConnections order.  Each entry of testConnections, as soon as it
\* is there and in the returned array, sits at the index of its client and
\* carries that client's name and provider; the returned array has one entry
\* per held client, in whatever order the testConnection calls complete.
C21_TestOrder ==
  /\ testPc = "waiting" => Len(okSlots) = Len(clients) /\ Len(calls) = Len(clients)
  /\ \A i \in 1..Len(okSlots) :
       IsSome(okSlots[i]) =>
         /\ calls[i].client = clients[i]
         /\ IsSettled(calls[i])
         /\ Get(okSlots[i]).model = clients[i].name
         /\ Get(okSlots[i]).provider = clients[i].provider
         /\ Get(okSlots[i]).ok \in BOOLEAN
  /\ testPc = "resolved" =>
       /\ Len(Get(testResult)) = Len(clients)
       /\ \A i \in 1..Len(clients) :
            /\ Get(testResult)[i].model = clients[i].name
            /\ Get(testResult)[i].provider = clients[i].provider

\* The second client's testConnection has completed, the first one's has not.
C21_Witness ==
  /\ testPc = "waiting"
  /\ Len(okSlots) >= 2
  /\ IsSome(okSlots[2])
  /\ ~IsSome(okSlots[1])
  /\ ~IsSettled(calls[1])

\* C22: testConnections isolates failures.  The entry of a client whose
\* testConnection threw or rejected has ok = false; the entry of any other
\* client has the value its testConnection returned (for an adapter: true
\* exactly when its query got 'OK' from the transport); the returned array
\* holds these entries; testConnections never rejects.
C22_TestIsolation ==
  /\ testPc # "rejected"
  /\ \A i \in 1..Len(okSlots) :
       IsSome(okSlots[i]) =>
         /\ (calls[i].pc = "threw" \/ HasOutcome(calls[i], "reject")) =>
              Get(okSlots[i]).ok = FALSE
         /\ (calls[i].client.kind = "mock" /\ HasOutcome(calls[i], "resolve")) =>
              Get(okSlots[i]).ok = ResolvedWith(calls[i])
         /\ (calls[i].client.kind = "adapter" /\ HasOutcome(calls[i], "resolve")) =>
              (Get(okSlots[i]).ok <=> calls[i].returned = Some("OK"))
         /\ testPc = "resolved" => Get(testResult)[i] = Get(okSlots[i])
  /\ (testPc = "waiting" /\ AllSettled) => \A i \in 1..Len(okSlots) : IsSome(okSlots[i])

\* A returned array with ok = false for a client whose testConnection
\* rejected next to ok = true for a client whose testConnection returned true.
C22_Witness ==
  /\ testPc = "resolved"
  /\ \E j, k \in 1..Len(calls) :
       /\ HasOutcome(calls[j], "reject")
       /\ Get(testResult)[j].ok = FALSE
       /\ calls[k].client.kind = "mock"
       /\ HasOutcome(calls[k], "resolve")
       /\ Get(testResult)[k].ok = TRUE

\* What getStatus returns right after construction, from the supplied list.
StatusAtConstruction ==
  [count |-> Cardinality(ConfiguredIndexes),
   models |-> [k \in 1..Cardinality(ConfiguredIndexes) |->
                 [name |-> supplied[Kth(ConfiguredIndexes, k)].name,
                  provider |-> supplied[Kth(ConfiguredIndexes, k)].provider]]]

\* C23: the held list is read-only.  After any sequence of ask,
\* testConnections and getStatus calls, failed ones included, getStatus
\* gives the count and the models of right after construction; when
\* getStatus has returned, with no operation started since, no call of a
\* client is running.
C23_HeldListReadOnly ==
  /\ getStatus = StatusAtConstruction
  /\ IsSome(status) =>
       /\ Get(status) = StatusAtConstruction
       /\ AllSettled
       /\ askPc # "waiting"
       /\ testPc # "waiting"

\* getStatus called after an ask in which one of two held clients failed.
C23_Witness ==
  /\ IsSome(status)
  /\ askPc = "resolved"
  /\ Len(clients) = 2
  /\ Get(result).errorCount >= 1
  /\ Get(status).count = 2

\* C24: ask waits for all.  ask has resolved only when every dispatched
\* query has settled, and every entry of the returned responses is the
\* settled outcome of its own call.
C24_WaitsForAll ==
  askPc = "resolved" =>
    /\ Len(calls) = Len(clients)
    /\ \A i \in 1..Len(calls) : calls[i].pc = "settled" /\ IsSome(calls[i].outcome)
    /\ Len(Get(result).responses) = Len(calls)
    /\ \A i \in 1..Len(calls) :
         /\ Get(result).responses[i].modelName = calls[i].client.name
         /\ HasOutcome(calls[i], "resolve") =>
              Get(result).responses[i] = ResolvedWith(calls[i])

\* ask still waiting although one of its two queries settled: the other is
\* sleeping in its backoff.
C24_Witness ==
  /\ askPc = "waiting"
  /\ Len(calls) = 2
  /\ \E j, k \in 1..2 :
       /\ calls[j].pc = "settled"
       /\ IsSome(slots[j])
       /\ calls[k].pc = "sleeping"
       /\ ~ENABLED AskReturn

\* C25: concurrent fan-out.  While ask waits, query has been called on every
\* held client, in list order and with ask's arguments, whatever state the
\* other calls are in: an adapter's first transport attempt has been made
\* although another client's call is still pending, retrying or sleeping.
C25_ConcurrentFanOut ==
  askPc = "waiting" =>
    /\ Len(calls) = Len(clients)
    /\ \A i \in 1..Len(calls) :
         /\ calls[i].client = clients[i]
         /\ calls[i].prompt = askArgs[1]
         /\ calls[i].systemPrompt = askArgs[2]
         /\ calls[i].client.kind = "adapter" => calls[i].invocations >= 1

\* The first client's query never settled so far; the second client's call
\* has retried, got its answer and filled its slot.
C25_Witness ==
  /\ askPc = "waiting"
  /\ Len(calls) = 2
  /\ calls[1].pc = "pending"
  /\ calls[2].pc = "settled"
  /\ calls[2].fails >= 1
  /\ calls[2].returned = Some("OK")
  /\ IsSome(slots[2])

\* C26: retry state is per call.  Whatever the other calls did, a call's
\* invocations and waits follow from its own failures alone: its k-th wait
\* is the backoff of attempt index k - 1, a call whose attempts all failed
\* with transient errors ends only after maxRetries + 1 attempts, and a call
\* that ended earlier without an answer met a fatal error of its own.
C26_RetryStatePerCall ==
  \A i \in 1..Len(calls) :
    (calls[i].client.kind = "adapter" /\ calls[i].invocations >= 1) =>
      /\ calls[i].invocations = calls[i].attempt + 1
      /\ calls[i].fails \in {calls[i].attempt, calls[i].attempt + 1}
      /\ \A k \in 1..Len(calls[i].sleeps) : calls[i].sleeps[k] = ExpectedBackoff(k - 1)
      /\ (calls[i].pc = "settled" /\ calls[i].returned = None) =>
           \/ calls[i].invocations = calls[i].client.maxRetries + 1
           \/ ~isRetryableError(Get(calls[i].lastThrown))
      /\ (calls[i].pc = "settled" /\ calls[i].transFails = calls[i].fails
            /\ calls[i].returned = None) =>
           calls[i].invocations = calls[i].client.maxRetries + 1

\* Two overlapping calls, each of which used its whole budget of three
\* attempts with waits of 1000 and 2000 ms.
C26_Witness ==
  /\ Len(calls) = 2
  /\ \A i \in 1..2 :
       /\ calls[i].client.kind = "adapter"
       /\ calls[i].pc = "settled"
       /\ calls[i].client.maxRetries = 2
       /\ calls[i].invocations = 3
       /\ calls[i].transFails = 3
       /\ calls[i].sleeps = <<1000, 2000>>

\* C27: isConfigured.  An adapter's isConfigured is false exactly when its
\* key is empty or is 'your_api_key_here'; so exactly the adapters with any
\* other key are held, and a query on an adapter reaches the transport
\* exactly when its key is such a key.
C27_IsConfigured ==
  /\ \A i \in 1..Len(supplied) :
       supplied[i].kind = "adapter" =>
         /\ isConfigured(supplied[i]) <=>
              supplied[i].apiKey \notin {"", "your_api_key_here"}
         /\ (\E k \in 1..Len(clients) : clients[k] = supplied[i]) <=>
              supplied[i].apiKey \notin {"", "your_api_key_here"}
  /\ \A i \in 1..Len(calls) :
       calls[i].client.kind = "adapter" =>
         (calls[i].invocations >= 1 <=>
            calls[i].client.apiKey \notin {"", "your_api_key_here"})

\* An adapter whose key is the placeholder in capitals is configured: it is
\* held and its query has reached the transport.
C27_Witness ==
  /\ Len(clients) = 1
  /\ clients[1].apiKey = "YOUR_API_KEY_HERE"
  /\ Len(calls) = 1
  /\ calls[1].invocations >= 1

\* C28: backoff placement.  A call sleeps only after a transient failure at
\* an attempt index below maxRetries, for retryDelay(that index, that
\* error); the next attempt starts after the sleep, so a running attempt of
\* index a has a sleeps behind it; a call that has ended made one sleep less
\* than invocations, none when it made a single attempt.
C28_BackoffPlacement ==
  \A i \in 1..Len(calls) :
    calls[i].client.kind = "adapter" =>
      /\ calls[i].pc = "sleeping" =>
           /\ calls[i].attempt < calls[i].client.maxRetries
           /\ isRetryableError(Get(calls[i].lastThrown))
           /\ Len(calls[i].sleeps) = calls[i].attempt + 1
           /\ calls[i].invocations = calls[i].attempt + 1
           /\ calls[i].sleeps[Len(calls[i].sleeps)] =
                retryDelay(calls[i].attempt, Get(calls[i].lastThrown))
      /\ calls[i].pc = "inflight" =>
           /\ Len(calls[i].sleeps) = calls[i].attempt
           /\ calls[i].invocations = calls[i].attempt + 1
      /\ (calls[i].pc = "settled" /\ calls[i].invocations >= 1) =>
           Len(calls[i].sleeps) = calls[i].invocations - 1
      /\ calls[i].invocations = 0 => calls[i].sleeps = <<>>

\* The second sleep of a call: attempt index 1 failed with 503 and the
\* executor waits 2000 ms after having waited 1000 ms.
C28_Witness ==
  \E i \in 1..Len(calls) :
    /\ calls[i].pc = "sleeping"
    /\ calls[i].attempt = 1
    /\ calls[i].lastThrown = Some(Err503)
    /\ calls[i].sleeps = <<1000, 2000>>

\* The entries of ask's list whose query rejected with an Error.
RejectedWithError ==
  { i \in 1..Len(calls) :
      /\ calls[i].slot = i
      /\ i <= Len(slots)
      /\ IsSome(slots[i])
      /\ HasOutcome(calls[i], "reject")
      /\ RejectedWith(calls[i]) # None
      /\ RejectedWith(calls[i]).type = "Error" }

\* C29 as stated: the synthesized Response of a query that rejected with an
\* Error e carries e's message as its error.
C29_SynthesizedMessage ==
  \A i \in RejectedWithError :
    Get(slots[i]) = Response(clients[i].name, clients[i].provider, "", 0,
                             Some(RejectedWith(calls[i]).message))

\* C29: synthesized Response in ask.  When held client i's query rejects
\* with an Error e, responses[i] has client i's name and provider, empty
\* answer text, latency 0, and error equal to e's message, or equal to
\* 'Unknown error' when e's message is the empty string.
C29_SynthesizedResponse ==
  \A i \in RejectedWithError :
    /\ Get(slots[i]) =
         Response(clients[i].name, clients[i].provider, "", 0,
                  Some(IF RejectedWith(calls[i]).message = "" THEN "Unknown error"
                       ELSE RejectedWith(calls[i]).message))
    /\ askPc = "resolved" => Get(result).responses[i] = Get(slots[i])

\* ask returned the entry of a query that rejected with Error('API
\* unavailable') next to the entry of one that rejected with Error('').
C29_Witness ==
  /\ askPc = "resolved"
  /\ \E j, k \in RejectedWithError :
       /\ RejectedWith(calls[j]) = ErrApiUnavailable
       /\ Get(result).responses[j].error = Some("API unavailable")
       /\ RejectedWith(calls[k]) = ErrEmptyMessage
       /\ Get(result).responses[k].error = Some("Unknown error")

\* C30: failure latency.  The Response of an adapter's query that reached
\* the transport and failed has a latency of at least the backoff waits the
\* call made before the failure.
C30_FailureLatency ==
  \A i \in 1..Len(calls) :
    (/\ calls[i].client.kind = "adapter"
     /\ calls[i].invocations >= 1
     /\ calls[i].returned = None
     /\ HasOutcome(calls[i], "resolve")) =>
      ResolvedWith(calls[i]).latency >= Elapsed(calls[i])

\* C31: adapter testConnection.  A testConnection called on an adapter has
\* made one query, with the test prompt; it never throws; it returns true
\* exactly when that query resolved with a Response that has no error and
\* whose text contains 'OK', and false when the query failed, rejected, or
\* the adapter is not configured (the transport is then not reached).
C31_AdapterTestConnection ==
  testPc = "tested" =>
    /\ Len(calls) = 1
    /\ calls[1].prompt = "Test connection. Respond with: OK"
    /\ calls[1].pc = "settled"
    /\ IsSome(connected)
    /\ Get(connected).kind = "resolve"
    /\ Get(Get(connected).resp) =
         (/\ HasOutcome(calls[1], "resolve")
          /\ ResolvedWith(calls[1]).error = None
          /\ ResolvedWith(calls[1]).response \in {"OK", "It is OK."})
    /\ (calls[1].fails >= 1 /\ calls[1].returned = None) =>
         Get(Get(connected).resp) = FALSE
    /\ calls[1].client.apiKey \in {"", "your_api_key_here"} =>
         Get(Get(connected).resp) = FALSE /\ calls[1].invocations = 0

\* testConnection returned true for an answer that contains 'OK' among
\* other words, after one transient failure.
C31_Witness ==
  /\ testPc = "tested"
  /\ calls[1].returned = Some("It is OK.")
  /\ calls[1].fails = 1
  /\ connected = Some(Resolved(TRUE))

\* The key the constructor is said to use for default adapter i.
KeyOf(i) ==
  LET opt == Get(keySources).keys[i]
      env == Get(keySources).env[i]
  IN IF opt \notin {None, Some("")} THEN Get(opt)
     ELSE IF env \notin {None, Some("")} THEN Get(env)
     ELSE ""

\* The default adapters whose key is non-empty and not the placeholder.
UsableDefaults == { i \in 1..4 : KeyOf(i) \notin {"", "your_api_key_here"} }

\* C32: default construction.  Without options.clients, four adapters are
\* built, for openai, xai, anthropic and google in this order, each with the
\* key options.keys gives, else the environment's, else ''; the held list is
\* the subsequence of those whose key is non-empty and not the placeholder,
\* and getStatus reports exactly them.
C32_DefaultConstruction ==
  IsSome(keySources) =>
    /\ Len(supplied) = 4
    /\ [i \in 1..4 |-> supplied[i].provider] = <<"openai", "xai", "anthropic", "google">>
    /\ \A i \in 1..4 : supplied[i].apiKey = KeyOf(i)
    /\ Len(clients) = Cardinality(UsableDefaults)
    /\ \A k \in 1..Len(clients) : clients[k] = supplied[Kth(UsableDefaults, k)]
    /\ IsSome(status) =>
         /\ Get(status).count = Cardinality(UsableDefaults)
         /\ \A k \in 1..Len(clients) :
              Get(status).models[k].provider = supplied[Kth(UsableDefaults, k)].provider

\* xAI gets its key from options.keys, Google from the environment; OpenAI
\* has the placeholder in options.keys (a key in the environment is not
\* looked at) and Anthropic has no key: the held list is xAI, Google.
C32_Witness ==
  /\ IsSome(keySources)
  /\ Get(keySources).keys = <<Some(PLACEHOLDER_KEY), Some("sk-opt"), None, Some("")>>
  /\ Get(keySources).env = <<Some("sk-env"), None, None, Some("sk-env")>>
  /\ IsSome(status)
  /\ Get(status).count = 2
  /\ [k \in 1..2 |-> Get(status).models[k].provider] = <<"xai", "google">>

\* The calls of held adapters whose transport failed and whose failure was
\* surfaced in a Response.
SurfacedFailures ==
  { i \in 1..Len(calls) :
      /\ calls[i].client.kind = "adapter"
      /\ calls[i].slot = i
      /\ calls[i].fails >= 1
      /\ calls[i].returned = None
      /\ IsSome(calls[i].surfaced)
      /\ HasOutcome(calls[i], "resolve") }

\* C33: every failure is counted as an error.  In the result of ask, the
\* entries of the adapters whose transport failure was surfaced are all in
\* errorCount and none of them is in successCount.
C33_FailureCounted ==
  askPc = "resolved" =>
    /\ Get(result).errorCount >= Cardinality(SurfacedFailures)
    /\ Get(result).successCount <= Len(calls) - Cardinality(SurfacedFailures)

\* C34: rejections that carry no message.  When a held client's query
\* rejects with a value that is not an Error (a string, null, ...), and no
\* query threw synchronously, ask is not rejected and that client's entry
\* is the synthesized Response with error 'Unknown error'.
C34_MessagelessRejection ==
  (\A j \in 1..Len(calls) : calls[j].pc # "threw") =>
    \A i \in 1..Len(calls) :
      (/\ calls[i].slot = i
       /\ HasOutcome(calls[i], "reject")
       /\ RejectedWith(calls[i]).type # "Error") =>
        /\ askPc # "rejected"
        /\ slots[i] = Some(Response(clients[i].name, clients[i].provider, "", 0,
                                    Some("Unknown error")))

\* C35: synchronous throw.  When the query of a held client throws
\* synchronously, ask is not rejected, query has still been called on every
\* held client, and the throwing client's entry is a synthesized error
\* Response.
C35_SynchronousThrow ==
  \A i \in 1..Len(calls) :
    (calls[i].slot = i /\ calls[i].pc = "threw") =>
      /\ askPc # "rejected"
      /\ Len(calls) = Len(clients)
      /\ IsSome(slots[i])
      /\ IsSome(Get(slots[i]).error)

\* C36: non-Error thrown values.  When the transport of an adapter throws a
\* value that is not an Error and withRetry surfaces it, query resolves with
\* an error Response whose error is the string itself for a thrown string
\* and 'Unknown error occurred' for any other value.
C36_NonErrorThrown ==
  \A i \in 1..Len(calls) :
    (/\ calls[i].client.kind = "adapter"
     /\ calls[i].pc = "settled"
     /\ IsSome(calls[i].surfaced)
     /\ Get(calls[i].surfaced).type # "Error") =>
      /\ HasOutcome(calls[i], "resolve")
      /\ ResolvedWith(calls[i]).response = ""
      /\ ResolvedWith(calls[i]).error =
           Some(IF Get(calls[i].surfaced).type = "string"
                  THEN Get(calls[i].surfaced).message
                  ELSE "Unknown error occurred")

\* Every ask and every testConnections that waits is eventually over, one
\* way or the other, and every query that was started eventually settles.
EveryOperationSettles ==
  /\ (askPc = "waiting") ~> (askPc \in {"resolved", "rejected"})
  /\ (testPc = "waiting") ~> (testPc = "resolved")
  /\ (~AllSettled) ~> AllSettled

\* C37: termination.  When every transport attempt settles and every timer
\* fires, every ask that waits eventually resolves, every testConnections
\* that waits eventually resolves, and the queries that were started all
\* settle by resolving.
C37_Termination ==
  /\ (askPc = "waiting") ~> (askPc = "resolved")
  /\ (testPc = "waiting") ~> (testPc = "resolved")
  /\ (~AllSettled) ~>
       (AllSettled /\ \A i \in 1..Len(calls) :
                        calls[i].client.kind = "adapter" => HasOutcome(calls[i], "resolve"))

\* The call of retryDelay was made with a hint that is honoured.
ValidHint ==
  /\ IsSome(HintOf(Get(fnArgs).error))
  /\ Get(HintOf(Get(fnArgs).error)) \in DOMAIN HintSeconds

\* C38: delay range.  retryDelay returns between 1000 and 60000 ms for
\* every attempt and error; without a valid hint it returns between 1000
\* and 10000 ms and no less than for any smaller attempt; only a valid hint
\* gives more than 10000 ms.
C38_DelayRange ==
  Delayed =>
    /\ Get(fnValue) >= 1000
    /\ Get(fnValue) <= 60000
    /\ ~ValidHint =>
         /\ Get(fnValue) <= 10000
         /\ \A b \in 0..Get(fnArgs).attempt :
              retryDelay(b, Get(fnArgs).error) <= Get(fnValue)
    /\ Get(fnValue) > 10000 => ValidHint

\* The hint of 60 seconds at attempt 5: 60000 ms, above the 10000 ms cap of
\* the exponential rule.
C38_Witness ==
  /\ Delayed
  /\ Get(fnArgs).attempt = 5
  /\ HintOf(Get(fnArgs).error) = Some("60")
  /\ Get(fnValue) = 60000

\* Sum over a in 0..n-1 of min(1000 * 2^a, 10000).
RECURSIVE BackoffTotal(_)
BackoffTotal(n) == IF n <= 0 THEN 0 ELSE BackoffTotal(n - 1) + ExpectedBackoff(n - 1)

\* C39: total backoff bound.  In one withRetry call the number of waits is
\* at most maxRetries and each wait is at most 60000 ms; when no error of
\* the call carried a retry hint the waits add up to at most the sum of the
\* exponential delays of attempts 0..maxRetries-1, which is 3000 ms for
\* maxRetries = 2.
C39_TotalBackoff ==
  \A i \in 1..Len(calls) :
    calls[i].client.kind = "adapter" =>
      /\ Len(calls[i].sleeps) <= calls[i].client.maxRetries
      /\ \A k \in 1..Len(calls[i].sleeps) : calls[i].sleeps[k] <= 60000
      /\ calls[i].hinted = 0 =>
           /\ Sum(calls[i].sleeps) <= BackoffTotal(calls[i].client.maxRetries)
           /\ calls[i].client.maxRetries = 2 => Sum(calls[i].sleeps) <= 3000

\* A call with maxRetries = 2 that met three transient errors without hint
\* and waited 3000 ms in all.
C39_Witness ==
  \E i \in 1..Len(calls) :
    /\ calls[i].client.maxRetries = 2
    /\ calls[i].pc = "settled"
    /\ calls[i].hinted = 0
    /\ calls[i].fails = 3
    /\ Sum(calls[i].sleeps) = 3000

====
